---------------------------- MODULE Spec2Model ----------------------------
(***************************************************************************)
(* A model of the trivia-league API: the three sheet tabs behind           *)
(* lib/sheets.js (Teams, Scores, Standings), the request handlers that     *)
(* read and write them, and the standings aggregation of api/standings.js. *)
(*                                                                         *)
(* A sheet tab is a function from the numbers of its occupied rows to the  *)
(* rows; a row is a sequence of cells; a cell read back from the store is  *)
(* a string ("" for an empty or absent cell).                              *)
(***************************************************************************)
EXTENDS Integers, Sequences, FiniteSets, TLC

VARIABLES
    teams,      \* the Teams tab
    scores,     \* the Scores tab
    standings,  \* the Standings tab (the cache)
    now,        \* Date.now(), in milliseconds
    pc,         \* per request slot: where its handler is suspended
    req,        \* per request slot: the request being handled
    loc,        \* per request slot: the handler's local variables
    resp,       \* per request slot: the response sent
    seen,       \* what the last read of the Standings tab returned
    served      \* the number of requests received so far

vars == <<teams, scores, standings, now, pc, req, loc, resp, seen, served>>

---------------------------------------------------------------------------
(* Bounds of the model. *)

MaxRows == 2            \* rows a sample Scores tab holds below row 1, at most
MaxRequests == 3        \* requests received in one behaviour, at most
MaxClock == 1           \* Date.now() runs over 0..MaxClock
MaxIndexKey == 9        \* array-index property names are "0".."9"

(* Program constants. *)

ClearLastRow == 1000    \* clearRange('Standings!A2:I1000')
MaxRounds == 6          \* rounds.slice(0, 6)

VALID_LOCATIONS == {"Main Street", "Exchange", "H2O"}

TEAMS_HEADERS ==
    <<"TeamID", "TeamName", "CaptainName", "Email", "Location", "RegisteredAt">>

SCORES_HEADERS ==
    <<"ScoreID", "Date", "Week", "Location", "TeamID", "TeamName",
      "R1", "R2", "R3", "R4", "R5", "R6", "BonusRound", "Total",
      "SubmittedBy", "SubmittedAt">>

STANDINGS_HEADERS ==
    <<"Rank", "TeamID", "TeamName", "Location",
      "GamesPlayed", "TotalPoints", "BestScore", "AverageScore", "LastPlayed">>

---------------------------------------------------------------------------
(* JavaScript values. *)

\* The numbers a cell or a request field can spell.
Numerals == -20..20

\* String(n) of a number, the text a numeric cell reads back as.
String(n) == ToString(n)

\* Number(s) of a numeral string.
Number(s) == CHOOSE n \in Numerals : String(n) = s

\* A string is truthy unless it is empty.
Truthy(s) == s # ""

\* a || b on strings
OrElse(a, b) == IF Truthy(a) THEN a ELSE b

\* The dates of the model in lexicographic order; "" sorts before them all.
Dates == <<"2024-01-01", "2024-01-08">>

DateRank(d) == IF d = "" THEN 0 ELSE CHOOSE i \in 1..Len(Dates) : Dates[i] = d

\* a > b on date strings (lexicographic comparison)
StrGT(a, b) == DateRank(a) > DateRank(b)

\* The property names every plain object inherits from Object.prototype;
\* each of them reads as a truthy value on {}.
ObjectPrototypeKeys ==
    {"constructor", "toString", "valueOf", "hasOwnProperty", "isPrototypeOf",
     "propertyIsEnumerable", "toLocaleString", "__proto__",
     "__defineGetter__", "__defineSetter__", "__lookupGetter__", "__lookupSetter__"}

\* A property name that is a canonical array index ("0", "7", ...).
IsIndexKey(k) == \E n \in 0..MaxIndexKey : String(n) = k

IndexOfKey(k) == CHOOSE n \in 0..MaxIndexKey : String(n) = k

Max(S) == CHOOSE x \in S : \A y \in S : y <= x

RECURSIVE Sum(_)
Sum(s) == IF s = <<>> THEN 0 ELSE Head(s) + Sum(Tail(s))

RECURSIVE SelectIdx(_, _)
\* the members of the set of numbers I in ascending order
SelectIdx(I, acc) ==
    IF I = {} THEN acc
    ELSE LET m == CHOOSE x \in I : \A y \in I : x <= y
         IN SelectIdx(I \ {m}, Append(acc, m))

---------------------------------------------------------------------------
(* lib/sheets.js: the four store calls on one tab. *)

EmptySheet == << >>

\* the number of the last occupied row, 0 on a tab with no data
LastRow(sheet) ==
    IF DOMAIN sheet = {} THEN 0
    ELSE CHOOSE r \in DOMAIN sheet :
            (r + 1) \notin DOMAIN sheet /\ \A q \in DOMAIN sheet : q <= r

\* values.get: every row down to the last occupied one, [] for a blank row
\* in between, and [] for a tab with no data.
readRange(sheet) ==
    [r \in 1..LastRow(sheet) |-> IF r \in DOMAIN sheet THEN sheet[r] ELSE <<>>]

\* values.append at A1 with INSERT_ROWS: the row lands below the last
\* occupied row, which is row 1 on a tab with no data.
appendRow(sheet, row) ==
    [r \in DOMAIN sheet \cup {LastRow(sheet) + 1} |->
        IF r = LastRow(sheet) + 1 THEN row ELSE sheet[r]]

\* values.update of the rows first..first+Len(values)-1
updateRange(sheet, first, values) ==
    [r \in DOMAIN sheet \cup (first..(first + Len(values) - 1)) |->
        IF r >= first /\ r < first + Len(values) THEN values[r - first + 1]
        ELSE sheet[r]]

\* a clear that leaves the rows where they are
clearRangeKeepsRows(sheet, first, last) == sheet

\* values.clear of the rows first..last
clearRange(sheet, first, last) ==
    [r \in DOMAIN sheet \ (first..last) |-> sheet[r]]

\* row[i] with i counted from 0, "" when the cell is absent
Cell(row, i) == IF i + 1 <= Len(row) THEN row[i + 1] ELSE ""


---------------------------------------------------------------------------
(* api/standings.js: computeStandings *)

\* .filter((row) => row[0] && row[4])
Qualifies(row) == Truthy(Cell(row, 0)) /\ Truthy(Cell(row, 4))

\* .map((row) => ({ date, location, teamId, teamName, total }))
ScoreOf(row) ==
    [date |-> OrElse(Cell(row, 1), ""),
     location |-> OrElse(Cell(row, 3), ""),
     teamId |-> Cell(row, 4),
     teamName |-> OrElse(Cell(row, 5), "Unknown"),
     total |-> IF Cell(row, 13) # "" THEN Number(Cell(row, 13)) ELSE 0]

\* scoreRows.slice(1).filter(...).map(...)
DataOf(scoreRows) ==
    LET body == SubSeq(scoreRows, 2, Len(scoreRows))
    IN  [i \in 1..Len(SelectSeq(body, Qualifies)) |->
            ScoreOf(SelectSeq(body, Qualifies)[i])]

\* locationFilter ? data.filter((s) => s.location === locationFilter) : data
FilterLocation(data, locationFilter) ==
    IF Truthy(locationFilter)
    THEN LET Match(s) == s.location = locationFilter IN SelectSeq(data, Match)
    ELSE data

\* teamMap = {}: its own keys in the order they were added, and their values
EmptyTeamMap == [keys |-> <<>>, at |-> <<>>]

OwnKeys(teamMap) == {teamMap.keys[i] : i \in 1..Len(teamMap.keys)}

\* teamMap[key] is truthy: an own entry, or a property inherited from
\* Object.prototype
Lookup(teamMap, key) == key \in OwnKeys(teamMap) \/ key \in ObjectPrototypeKeys

\* an entry whose bestScore starts from the first score's total
NewTeamBestFromFirst(score) ==
    [teamId |-> score.teamId,
     teamName |-> score.teamName,
     location |-> score.location,
     gamesPlayed |-> 0,
     totalPoints |-> 0,
     bestScore |-> score.total,
     lastPlayed |-> ""]

\* the entry created for a team at its first score
NewTeam(score) ==
    [teamId |-> score.teamId,
     teamName |-> score.teamName,
     location |-> score.location,
     gamesPlayed |-> 0,
     totalPoints |-> 0,
     bestScore |-> 0,
     lastPlayed |-> ""]

\* the four updates of the loop body on the team's entry t
AddScore(t, score) ==
    [t EXCEPT
        !.gamesPlayed = @ + 1,
        !.totalPoints = @ + score.total,
        !.bestScore = IF score.total > @ THEN score.total ELSE @,
        !.lastPlayed = IF ~Truthy(@) \/ StrGT(score.date, @) THEN score.date ELSE @]

\* one turn of `for (const score of filtered)`.  When teamMap[score.teamId]
\* is an inherited property no entry is created and the updates land on the
\* inherited object, which Object.values(teamMap) never lists.
Fold(teamMap, score) ==
    LET id == score.teamId IN
    IF id \in OwnKeys(teamMap)
    THEN [teamMap EXCEPT !.at[id] = AddScore(@, score)]
    ELSE IF Lookup(teamMap, id)
    THEN teamMap
    ELSE [keys |-> Append(teamMap.keys, id),
          at |-> [k \in OwnKeys(teamMap) \cup {id} |->
                    IF k = id THEN AddScore(NewTeam(score), score)
                    ELSE teamMap.at[k]]]

RECURSIVE Aggregate(_, _)
Aggregate(filtered, teamMap) ==
    IF filtered = <<>> THEN teamMap
    ELSE Aggregate(Tail(filtered), Fold(teamMap, Head(filtered)))

\* Object.values(teamMap): the array-index keys in ascending numeric order,
\* then every other key in the order it was added.
ObjectValues(teamMap) ==
    LET idx == SelectIdx({IndexOfKey(k) : k \in {x \in OwnKeys(teamMap) : IsIndexKey(x)}}, <<>>)
        NotIndex(k) == ~IsIndexKey(k)
        rest == SelectSeq(teamMap.keys, NotIndex)
    IN  [i \in 1..Len(idx) |-> teamMap.at[String(idx[i])]]
        \o [i \in 1..Len(rest) |-> teamMap.at[rest[i]]]

\* (a, b) => b.totalPoints - a.totalPoints || b.gamesPlayed - a.gamesPlayed
compare(a, b) ==
    IF b.totalPoints - a.totalPoints # 0
    THEN b.totalPoints - a.totalPoints
    ELSE b.gamesPlayed - a.gamesPlayed

\* x put into the sorted sequence s behind every element it does not precede
Insert(s, x) ==
    LET before == {i \in 1..Len(s) : compare(x, s[i]) < 0}
        at == IF before = {} THEN Len(s) + 1
              ELSE CHOOSE i \in before : \A j \in before : i <= j
    IN  SubSeq(s, 1, at - 1) \o <<x>> \o SubSeq(s, at, Len(s))

RECURSIVE SortFrom(_, _)
SortFrom(todo, sorted) ==
    IF todo = <<>> THEN sorted
    ELSE SortFrom(Tail(todo), Insert(sorted, Head(todo)))

\* Array.prototype.sort with `compare`: a stable sort
sort(values) == SortFrom(values, <<>>)

\* Math.round((totalPoints / gamesPlayed) * 10), the average in tenths:
\* Math.round rounds a half up
AverageTenths(totalPoints, gamesPlayed) ==
    IF gamesPlayed > 0
    THEN (20 * totalPoints + gamesPlayed) \div (2 * gamesPlayed)
    ELSE 0

\* .map((team, i) => ({ rank: i + 1, ... })); averageScore is held in tenths
Ranked(sorted) ==
    [i \in 1..Len(sorted) |->
        [rank |-> i,
         teamId |-> sorted[i].teamId,
         teamName |-> sorted[i].teamName,
         location |-> sorted[i].location,
         gamesPlayed |-> sorted[i].gamesPlayed,
         totalPoints |-> sorted[i].totalPoints,
         bestScore |-> sorted[i].bestScore,
         averageScore |-> AverageTenths(sorted[i].totalPoints, sorted[i].gamesPlayed),
         lastPlayed |-> sorted[i].lastPlayed]]

computeStandings(scoreRows, locationFilter) ==
    Ranked(sort(ObjectValues(
        Aggregate(FilterLocation(DataOf(scoreRows), locationFilter), EmptyTeamMap))))

\* const rows = standings.map((s) => [s.rank, ..., s.lastPlayed]), as the
\* store holds them: numbers read back as their text (the average in tenths)
RowsOf(standingList) ==
    [i \in 1..Len(standingList) |->
        <<String(standingList[i].rank), standingList[i].teamId,
          standingList[i].teamName, standingList[i].location,
          String(standingList[i].gamesPlayed), String(standingList[i].totalPoints),
          String(standingList[i].bestScore), String(standingList[i].averageScore),
          standingList[i].lastPlayed>>]

---------------------------------------------------------------------------
(* Request slots.  A handler runs from one `await` to the next in one      *)
(* step; the store call it awaits takes effect, or throws, in the step     *)
(* that resumes it.                                                        *)

Slots == {1, 2}

NoReq == [endpoint |-> "none"]
NoLoc == << >>
NoResp == [status |-> 0]

IdleSlots ==
    /\ pc = [p \in Slots |-> "idle"]
    /\ req = [p \in Slots |-> NoReq]
    /\ loc = [p \in Slots |-> NoLoc]
    /\ resp = [p \in Slots |-> NoResp]

\* a request is received at the free slot p
Arrives(p) ==
    /\ pc[p] = "idle"
    /\ served < MaxRequests
    /\ served' = served + 1

Goto(p, label) == pc' = [pc EXCEPT ![p] = label]

\* return res.status(status).json(body)
Send(p, status, body) ==
    /\ pc' = [pc EXCEPT ![p] = "done"]
    /\ resp' = [resp EXCEPT ![p] = [status |-> status, body |-> body]]

\* new Date().toISOString()
toISOString(t) == "2024-01-08T20:00:00.00" \o String(t) \o "Z"

\* the handlers' places where a store call is awaited
Awaiting ==
    {"standings_read", "persist_clear", "persist_update",
     "scores_read", "scores_append",
     "teams_read", "register_read", "register_append",
     "setup_teams", "setup_scores", "setup_standings"}

\* a failure of clearRange that persistToSheet swallows, going on to the
\* update
StoreCallFailsClearSwallowed(p) ==
    /\ pc[p] \in Awaiting
    /\ IF pc[p] = "persist_clear"
       THEN Goto(p, "persist_update") /\ resp' = resp
       ELSE Send(p, 500, "store call failed")
    /\ UNCHANGED <<teams, scores, standings, now, req, loc, seen, served>>

\* The awaited store call throws and leaves the tab as it was; every
\* handler's catch answers 500.
StoreCallFails(p) ==
    /\ pc[p] \in Awaiting
    /\ Send(p, 500, "store call failed")
    /\ UNCHANGED <<teams, scores, standings, now, req, loc, seen, served>>

\* The response is delivered and the slot is free again.
Respond(p) ==
    /\ pc[p] = "done"
    /\ pc' = [pc EXCEPT ![p] = "idle"]
    /\ req' = [req EXCEPT ![p] = NoReq]
    /\ loc' = [loc EXCEPT ![p] = NoLoc]
    /\ resp' = [resp EXCEPT ![p] = NoResp]
    /\ UNCHANGED <<teams, scores, standings, now, seen, served>>

\* Date.now() advances
Tick ==
    /\ now < MaxClock
    /\ now' = now + 1
    /\ UNCHANGED <<teams, scores, standings, pc, req, loc, resp, seen, served>>

\* A display surface reads the cache: readRange('Standings!A:I')
ReadCache ==
    /\ seen' = readRange(standings)
    /\ UNCHANGED <<teams, scores, standings, now, pc, req, loc, resp, served>>

---------------------------------------------------------------------------
(* api/standings.js: handler and persistToSheet *)

\* GET /api/standings?location=..&refresh=..
StandingsGet(p, location, refresh) ==
    /\ Arrives(p)
    /\ req' = [req EXCEPT ![p] =
            [endpoint |-> "standings", location |-> location, refresh |-> refresh]]
    /\ Goto(p, "standings_read")
    /\ UNCHANGED <<teams, scores, standings, now, loc, resp, seen>>

\* readRange('Scores!A:P') returns; the handler runs on to its response or,
\* with refresh=true, into persistToSheet up to clearRange
StandingsRead(p) ==
    /\ pc[p] = "standings_read"
    /\ LET scoreRows == readRange(scores)
           result == computeStandings(scoreRows, req[p].location)
       IN  IF Len(scoreRows) = 0
           THEN /\ Send(p, 200, [standings |-> <<>>, lastUpdated |-> toISOString(now)])
                /\ loc' = loc
           ELSE IF req[p].refresh = "true"
           THEN /\ loc' = [loc EXCEPT ![p] = [standings |-> result]]
                /\ Goto(p, "persist_clear")
                /\ resp' = resp
           ELSE /\ Send(p, 200, [standings |-> result, lastUpdated |-> toISOString(now)])
                /\ loc' = loc
    /\ UNCHANGED <<teams, scores, standings, now, req, seen, served>>

\* a clear that starts one row low: 'Standings!A3:I1000'
PersistClearFromRow3(p) ==
    /\ pc[p] = "persist_clear"
    /\ standings' = clearRange(standings, 3, ClearLastRow)
    /\ IF Len(loc[p].standings) = 0
       THEN Send(p, 200, [standings |-> loc[p].standings, lastUpdated |-> toISOString(now)])
       ELSE Goto(p, "persist_update") /\ resp' = resp
    /\ UNCHANGED <<teams, scores, now, req, loc, seen, served>>

\* clearRange('Standings!A2:I1000') returns; an empty result ends the
\* persist here, and the handler responds
PersistClear(p) ==
    /\ pc[p] = "persist_clear"
    /\ standings' = clearRange(standings, 2, ClearLastRow)
    /\ IF Len(loc[p].standings) = 0
       THEN Send(p, 200, [standings |-> loc[p].standings, lastUpdated |-> toISOString(now)])
       ELSE Goto(p, "persist_update") /\ resp' = resp
    /\ UNCHANGED <<teams, scores, now, req, loc, seen, served>>

\* an update that starts at the header row: `Standings!A1:I${standings.length}`
PersistUpdateFromRow1(p) ==
    /\ pc[p] = "persist_update"
    /\ standings' = updateRange(standings, 1, RowsOf(loc[p].standings))
    /\ Send(p, 200, [standings |-> loc[p].standings, lastUpdated |-> toISOString(now)])
    /\ UNCHANGED <<teams, scores, now, req, loc, seen, served>>

\* updateRange(`Standings!A2:I${standings.length + 1}`, rows) returns
PersistUpdate(p) ==
    /\ pc[p] = "persist_update"
    /\ standings' = updateRange(standings, 2, RowsOf(loc[p].standings))
    /\ Send(p, 200, [standings |-> loc[p].standings, lastUpdated |-> toISOString(now)])
    /\ UNCHANGED <<teams, scores, now, req, loc, seen, served>>

---------------------------------------------------------------------------
(* api/scores.js *)

\* Math.random().toString(36).slice(2, 6): two of the suffixes it can give
RandomSuffixes == {"k3x9", "p0qz"}

generateScoreId(t, suffix) == "score_" \o String(t) \o "_" \o suffix

\* /^\d{4}-\d{2}-\d{2}$/.test(date), on the dates of the model
MatchesDate(date) == \E i \in 1..Len(Dates) : Dates[i] = date

\* Request bodies of POST /api/scores: rounds are numbers, bonusRound is
\* <<>> when the field is absent and <<n>> when it is n.
ScoreBodies ==
    LET a == [teamId |-> "team_a", teamName |-> "Aces", location |-> "Main Street",
              week |-> "1", date |-> "2024-01-01", rounds |-> <<3>>,
              bonusRound |-> <<>>, submittedBy |-> "host"]
        b == [teamId |-> "team_b", teamName |-> "Kings", location |-> "H2O",
              week |-> "2", date |-> "2024-01-08", rounds |-> <<2, 3>>,
              bonusRound |-> <<1>>, submittedBy |-> ""]
    IN  {a, b,
         [a EXCEPT !.teamId = ""],
         [a EXCEPT !.location = "Downtown"],
         [a EXCEPT !.date = "Jan 8"]}

\* rounds.slice(0, 6).map(Number)
RoundScores(rounds) == SubSeq(rounds, 1, IF Len(rounds) < MaxRounds THEN Len(rounds) ELSE MaxRounds)

\* bonusRound !== undefined && bonusRound !== '' ? Number(bonusRound) : 0
BonusOf(body) == IF body.bonusRound = <<>> THEN 0 ELSE body.bonusRound[1]

TotalOf(body) == Sum(RoundScores(body.rounds)) + BonusOf(body)

\* the row handlePost appends, as the store holds it: numbers read back as
\* their text
NewScoreRow(body, scoreId, submittedAt) ==
    <<scoreId, body.date, body.week, body.location, body.teamId, body.teamName>>
    \o [i \in 1..MaxRounds |->
            IF i <= Len(RoundScores(body.rounds))
            THEN String(RoundScores(body.rounds)[i]) ELSE ""]
    \o <<IF BonusOf(body) = 0 THEN "" ELSE String(BonusOf(body)),
         String(TotalOf(body)),
         body.submittedBy,
         submittedAt>>

\* POST /api/scores: the checks, then the row is built and appendRow called
ScoresPost(p, authorized, body, suffix) ==
    /\ Arrives(p)
    /\ req' = [req EXCEPT ![p] =
            [endpoint |-> "scores", method |-> "POST",
             authorized |-> authorized, body |-> body]]
    /\ IF ~authorized
       THEN Send(p, 401, "Unauthorized") /\ loc' = loc
       ELSE IF \E f \in {body.teamId, body.teamName, body.location, body.week, body.date} :
                    ~Truthy(f)
       THEN Send(p, 400, "Missing required fields") /\ loc' = loc
       ELSE IF body.location \notin VALID_LOCATIONS
       THEN Send(p, 400, "Invalid location") /\ loc' = loc
       ELSE IF ~MatchesDate(body.date)
       THEN Send(p, 400, "date must be YYYY-MM-DD format") /\ loc' = loc
       ELSE /\ loc' = [loc EXCEPT ![p] =
                    [row |-> NewScoreRow(body, generateScoreId(now, suffix),
                                         toISOString(now))]]
            /\ Goto(p, "scores_append")
            /\ resp' = resp
    /\ UNCHANGED <<teams, scores, standings, now, seen>>

\* appendRow('Scores', row) returns
ScoresAppend(p) ==
    /\ pc[p] = "scores_append"
    /\ scores' = appendRow(scores, loc[p].row)
    /\ Send(p, 201, [scoreId |-> loc[p].row[1], total |-> Number(loc[p].row[14])])
    /\ UNCHANGED <<teams, standings, now, req, loc, seen, served>>

\* the cells of a row that hold a number, as numbers
NumbersIn(cells) ==
    LET Filled(c) == c # ""
        kept == SelectSeq(cells, Filled)
    IN  [i \in 1..Len(kept) |-> Number(kept[i])]

rowToScore(row) ==
    [scoreId |-> Cell(row, 0),
     date |-> Cell(row, 1),
     week |-> Cell(row, 2),
     location |-> Cell(row, 3),
     teamId |-> Cell(row, 4),
     teamName |-> Cell(row, 5),
     rounds |-> NumbersIn([i \in 1..MaxRounds |-> Cell(row, 5 + i)]),
     bonusRound |-> IF Cell(row, 12) # "" THEN Number(Cell(row, 12)) ELSE 0,
     total |-> IF Cell(row, 13) # "" THEN Number(Cell(row, 13)) ELSE 0,
     submittedBy |-> Cell(row, 14),
     submittedAt |-> Cell(row, 15)]

\* GET /api/scores?teamId=..&location=..
ScoresGet(p, teamId, location) ==
    /\ Arrives(p)
    /\ req' = [req EXCEPT ![p] =
            [endpoint |-> "scores", method |-> "GET",
             teamId |-> teamId, location |-> location]]
    /\ Goto(p, "scores_read")
    /\ UNCHANGED <<teams, scores, standings, now, loc, resp, seen>>

\* readRange('Scores!A:P') returns
ScoresRead(p) ==
    /\ pc[p] = "scores_read"
    /\ LET rows == readRange(scores)
           HasId(row) == Truthy(Cell(row, 0))
           Wanted(row) ==
               /\ Truthy(req[p].teamId) => Cell(row, 4) = req[p].teamId
               /\ Truthy(req[p].location) => Cell(row, 3) = req[p].location
           kept == SelectSeq(SelectSeq(SubSeq(rows, 2, Len(rows)), HasId), Wanted)
       IN  IF Len(rows) <= 1
           THEN Send(p, 200, [scores |-> <<>>])
           ELSE Send(p, 200, [scores |-> [i \in 1..Len(kept) |-> rowToScore(kept[i])]])
    /\ UNCHANGED <<teams, scores, standings, now, req, loc, seen, served>>

---------------------------------------------------------------------------
(* api/setup.js *)

\* POST /api/setup
SetupPost(p, authorized) ==
    /\ Arrives(p)
    /\ req' = [req EXCEPT ![p] = [endpoint |-> "setup", authorized |-> authorized]]
    /\ IF authorized
       THEN Goto(p, "setup_teams") /\ resp' = resp
       ELSE Send(p, 401, "Unauthorized")
    /\ UNCHANGED <<teams, scores, standings, now, loc, seen>>

\* updateRange('Teams!A1:F1', [TEAMS_HEADERS]) returns
SetupTeams(p) ==
    /\ pc[p] = "setup_teams"
    /\ teams' = updateRange(teams, 1, <<TEAMS_HEADERS>>)
    /\ Goto(p, "setup_scores")
    /\ UNCHANGED <<scores, standings, now, req, loc, resp, seen, served>>

\* updateRange('Scores!A1:P1', [SCORES_HEADERS]) returns
SetupScores(p) ==
    /\ pc[p] = "setup_scores"
    /\ scores' = updateRange(scores, 1, <<SCORES_HEADERS>>)
    /\ Goto(p, "setup_standings")
    /\ UNCHANGED <<teams, standings, now, req, loc, resp, seen, served>>

\* updateRange('Standings!A1:I1', [STANDINGS_HEADERS]) returns
SetupStandings(p) ==
    /\ pc[p] = "setup_standings"
    /\ standings' = updateRange(standings, 1, <<STANDINGS_HEADERS>>)
    /\ Send(p, 200, "Sheet headers initialized")
    /\ UNCHANGED <<teams, scores, now, req, loc, seen, served>>

---------------------------------------------------------------------------
(* api/register.js and api/teams.js *)

\* String.prototype.trim on the strings of the model
trim(str) ==
    CASE str = " aces " -> "aces"
      [] str = "  " -> ""
      [] OTHER -> str

\* String.prototype.toLowerCase on the strings of the model
toLowerCase(str) ==
    CASE str = "Aces" -> "aces"
      [] str = "Ann@Grain.org" -> "ann@grain.org"
      [] OTHER -> str

\* /^[^\s@]+@[^\s@]+\.[^\s@]+$/.test(email), on the strings of the model
MatchesEmail(email) == email \in {"Ann@Grain.org", "ann@grain.org"}

generateTeamId(t, suffix) == "team_" \o String(t) \o "_" \o suffix

\* Request bodies of POST /api/register
RegisterBodies ==
    LET a == [teamName |-> "Aces", captainName |-> "Ann",
              email |-> "Ann@Grain.org", location |-> "Main Street"]
    IN  {a,
         [a EXCEPT !.teamName = " aces ", !.location = "H2O"],
         [a EXCEPT !.captainName = "  "],
         [a EXCEPT !.location = "Downtown"],
         [a EXCEPT !.email = "ann"]}

\* POST /api/register: the checks, then readRange('Teams!A:B') is called
RegisterPost(p, body) ==
    /\ Arrives(p)
    /\ req' = [req EXCEPT ![p] = [endpoint |-> "register", body |-> body]]
    /\ IF \E f \in {body.teamName, body.captainName, body.email, body.location} :
                ~Truthy(trim(f))
       THEN Send(p, 400, "Missing required fields")
       ELSE IF body.location \notin VALID_LOCATIONS
       THEN Send(p, 400, "Invalid location")
       ELSE IF ~MatchesEmail(trim(body.email))
       THEN Send(p, 400, "Invalid email address")
       ELSE Goto(p, "register_read") /\ resp' = resp
    /\ UNCHANGED <<teams, scores, standings, now, loc, seen>>

\* readRange('Teams!A:B') returns: the duplicate check, then the row is
\* built and appendRow called
RegisterRead(p, suffix) ==
    /\ pc[p] = "register_read"
    /\ LET rows == readRange(teams)
           body == req[p].body
           normalised == toLowerCase(trim(body.teamName))
           duplicate == \E i \in 2..Len(rows) : toLowerCase(Cell(rows[i], 1)) = normalised
       IN  IF duplicate
           THEN Send(p, 409, "A team with this name is already registered") /\ loc' = loc
           ELSE /\ loc' = [loc EXCEPT ![p] =
                        [row |-> <<generateTeamId(now, suffix), trim(body.teamName),
                                   trim(body.captainName), toLowerCase(trim(body.email)),
                                   body.location, toISOString(now)>>]]
                /\ Goto(p, "register_append")
                /\ resp' = resp
    /\ UNCHANGED <<teams, scores, standings, now, req, seen, served>>

\* appendRow('Teams', row) returns
RegisterAppend(p) ==
    /\ pc[p] = "register_append"
    /\ teams' = appendRow(teams, loc[p].row)
    /\ Send(p, 201, [teamId |-> loc[p].row[1], teamName |-> loc[p].row[2]])
    /\ UNCHANGED <<scores, standings, now, req, loc, seen, served>>

\* the strings teams are sorted on, in the order localeCompare puts them
Collation == <<"", "aces", "Aces", "TeamName">>

CollationRank(str) == CHOOSE i \in 1..Len(Collation) : Collation[i] = str

\* a.localeCompare(b) < 0
LocaleBefore(a, b) == CollationRank(a) < CollationRank(b)

\* x put into the sorted team list behind every element it does not precede
InsertTeam(list, x) ==
    LET before == {i \in 1..Len(list) : LocaleBefore(x.teamName, list[i].teamName)}
        at == IF before = {} THEN Len(list) + 1
              ELSE CHOOSE i \in before : \A j \in before : i <= j
    IN  SubSeq(list, 1, at - 1) \o <<x>> \o SubSeq(list, at, Len(list))

RECURSIVE SortTeams(_, _)
\* teams.sort((a, b) => (a.teamName || '').localeCompare(b.teamName || ''))
SortTeams(todo, sorted) ==
    IF todo = <<>> THEN sorted
    ELSE SortTeams(Tail(todo), InsertTeam(sorted, Head(todo)))

\* GET /api/teams?location=..
TeamsGet(p, location) ==
    /\ Arrives(p)
    /\ req' = [req EXCEPT ![p] = [endpoint |-> "teams", location |-> location]]
    /\ Goto(p, "teams_read")
    /\ UNCHANGED <<teams, scores, standings, now, loc, resp, seen>>

\* readRange('Teams!A:F') returns
TeamsRead(p) ==
    /\ pc[p] = "teams_read"
    /\ LET rows == readRange(teams)
           Kept(row) == /\ Truthy(Cell(row, 0))
                        /\ Truthy(req[p].location) => Cell(row, 4) = req[p].location
           kept == SelectSeq(SubSeq(rows, 2, Len(rows)), Kept)
           list == [i \in 1..Len(kept) |->
                        [teamId |-> Cell(kept[i], 0), teamName |-> Cell(kept[i], 1),
                         captainName |-> Cell(kept[i], 2), email |-> Cell(kept[i], 3),
                         location |-> Cell(kept[i], 4), registeredAt |-> Cell(kept[i], 5)]]
       IN  IF Len(rows) <= 1
           THEN Send(p, 200, [teams |-> <<>>])
           ELSE Send(p, 200, [teams |-> SortTeams(list, <<>>)])
    /\ UNCHANGED <<teams, scores, standings, now, req, loc, seen, served>>

---------------------------------------------------------------------------
(* The system: requests arrive at free slots and their handlers interleave *)
(* at the store calls.                                                     *)

Endpoints == {"register", "teams", "scores", "standings", "setup"}

\* the methods an endpoint's handler serves
Served(endpoint) ==
    CASE endpoint = "scores" -> {"GET", "POST"}
      [] endpoint \in {"register", "setup"} -> {"POST"}
      [] OTHER -> {"GET"}

\* OPTIONS is answered 200 and a method the handler does not serve 405,
\* before any store call
OtherMethod(p, endpoint, method) ==
    /\ Arrives(p)
    /\ method \notin Served(endpoint)
    /\ req' = [req EXCEPT ![p] = [endpoint |-> endpoint, method |-> method]]
    /\ IF method = "OPTIONS"
       THEN Send(p, 200, "")
       ELSE Send(p, 405, "Method not allowed")
    /\ UNCHANGED <<teams, scores, standings, now, loc, seen>>

Init ==
    /\ teams = EmptySheet
    /\ scores = EmptySheet
    /\ standings = EmptySheet
    /\ now = 0
    /\ seen = <<>>
    /\ served = 0
    /\ IdleSlots

\* the steps of slot p
Step(p) ==
    \/ \E endpoint \in Endpoints, method \in {"OPTIONS", "PUT"} :
            OtherMethod(p, endpoint, method)
    \/ \E location \in {"", "Main Street"}, refresh \in {"", "true"} :
            StandingsGet(p, location, refresh)
    \/ StandingsRead(p)
    \/ PersistClear(p)
    \/ PersistUpdate(p)
    \/ \E authorized \in BOOLEAN, body \in ScoreBodies, suffix \in RandomSuffixes :
            ScoresPost(p, authorized, body, suffix)
    \/ ScoresAppend(p)
    \/ \E teamId \in {"", "team_a"} : ScoresGet(p, teamId, "")
    \/ ScoresRead(p)
    \/ \E authorized \in BOOLEAN : SetupPost(p, authorized)
    \/ SetupTeams(p)
    \/ SetupScores(p)
    \/ SetupStandings(p)
    \/ \E body \in RegisterBodies : RegisterPost(p, body)
    \/ \E suffix \in RandomSuffixes : RegisterRead(p, suffix)
    \/ RegisterAppend(p)
    \/ \E location \in {"", "Main Street"} : TeamsGet(p, location)
    \/ TeamsRead(p)
    \/ StoreCallFails(p)
    \/ Respond(p)

\* requests handled concurrently, from the tabs of a new spreadsheet
Next == Tick \/ ReadCache \/ \E p \in Slots : Step(p)

Spec == Init /\ [][Next]_vars

---------------------------------------------------------------------------
(* The cache on its own: one slot serves standings requests over a Scores  *)
(* tab that score submissions filled earlier, beside reads of the cache.   *)

\* Scores tabs that submissions of the two valid bodies leave, with the
\* header of a setup run, or without it (the first row lands in row 1)
CacheScoreTabs ==
    LET a == NewScoreRow(CHOOSE x \in ScoreBodies : x.teamId = "team_a" /\ MatchesDate(x.date)
                                                   /\ x.location \in VALID_LOCATIONS,
                         generateScoreId(0, "k3x9"), toISOString(0))
        b == NewScoreRow(CHOOSE x \in ScoreBodies : x.teamId = "team_b",
                         generateScoreId(1, "p0qz"), toISOString(1))
    IN  {EmptySheet,
         <<SCORES_HEADERS>>,
         <<SCORES_HEADERS, a>>,
         <<SCORES_HEADERS, a, b>>,
         <<a, b>>}

\* A standings row of an earlier snapshot
StaleRow(rank) ==
    <<String(rank), "team_" \o String(rank), "Zeros", "Exchange",
      "1", "4", "4", "40", "2024-01-01">>

\* The cache tabs a run starts from: a new tab, the snapshot of one team,
\* and the snapshot of ClearLastRow teams, whose last row lies one row below
\* the range persistToSheet clears
PriorCaches ==
    {EmptySheet,
     <<STANDINGS_HEADERS, StaleRow(1)>>,
     [r \in 1..(ClearLastRow + 1) |->
        IF r = 1 THEN STANDINGS_HEADERS ELSE StaleRow(r - 1)]}

InitCache ==
    /\ teams = EmptySheet
    /\ scores \in CacheScoreTabs
    /\ standings \in PriorCaches
    /\ now = 0
    /\ seen = <<>>
    /\ served = 0
    /\ IdleSlots

NextCache ==
    \/ \E location \in {"", "Main Street", "Exchange"}, refresh \in {"", "true"} :
            StandingsGet(1, location, refresh)
    \/ StandingsRead(1)
    \/ PersistClear(1)
    \/ PersistUpdate(1)
    \/ StoreCallFails(1)
    \/ Respond(1)
    \/ ReadCache

SpecCache == InitCache /\ [][NextCache]_vars

---------------------------------------------------------------------------
(* Concurrent refreshes: both slots serve standings requests with          *)
(* refresh=true over a Scores tab that score submissions filled earlier.   *)

\* the cache tabs that lie within the range persistToSheet clears
RefreshCaches == {c \in PriorCaches : LastRow(c) <= ClearLastRow}

InitRefresh ==
    /\ teams = EmptySheet
    /\ scores \in CacheScoreTabs
    /\ standings \in RefreshCaches
    /\ now = 0
    /\ seen = <<>>
    /\ served = 0
    /\ IdleSlots

NextRefresh ==
    \/ \E p \in Slots, location \in {"", "Main Street"} : StandingsGet(p, location, "true")
    \/ \E p \in Slots : StandingsRead(p)
    \/ \E p \in Slots : PersistClear(p)
    \/ \E p \in Slots : PersistUpdate(p)
    \/ \E p \in Slots : StoreCallFails(p)
    \/ \E p \in Slots : Respond(p)

SpecRefresh == InitRefresh /\ [][NextRefresh]_vars

---------------------------------------------------------------------------
(* Standings requests beside score submissions: both slots serve standings *)
(* requests, with and without refresh, while submissions append to the     *)
(* Scores tab the requests read.                                           *)

InitFrame ==
    /\ teams = EmptySheet
    /\ scores \in CacheScoreTabs
    /\ standings \in RefreshCaches
    /\ now = 0
    /\ seen = <<>>
    /\ served = 0
    /\ IdleSlots

NextFrame ==
    \/ \E p \in Slots, location \in {"", "Main Street"}, refresh \in {"", "true"} :
            StandingsGet(p, location, refresh)
    \/ \E p \in Slots : StandingsRead(p)
    \/ \E p \in Slots : PersistClear(p)
    \/ \E p \in Slots : PersistUpdate(p)
    \/ \E p \in Slots, body \in ScoreBodies : ScoresPost(p, TRUE, body, "k3x9")
    \/ \E p \in Slots : ScoresAppend(p)
    \/ \E p \in Slots : StoreCallFails(p)
    \/ \E p \in Slots : Respond(p)

SpecFrame == InitFrame /\ [][NextFrame]_vars

---------------------------------------------------------------------------
(* The aggregation on its own: a Scores tab of any rows, read by standings *)
(* requests without refresh.                                               *)

\* a Scores row with the cells computeStandings reads
ScoreRow(scoreId, date, location, teamId, teamName, total) ==
    <<scoreId, date, "1", location, teamId, teamName,
      "", "", "", "", "", "", "", total, "host", "">>

\* the team names, venues and dates a row is submitted with
Snapshots ==
    {<<"Aces", "Main Street", "2024-01-01">>, <<"Kings", "H2O", "2024-01-08">>}

\* team ids: a generated one, one that is an array index, and one that is a
\* property of Object.prototype
SampleTeamIds == {"team_a", "7", "constructor"}

SampleTotals == {"-5", "3"}

WellFormedRows ==
    {ScoreRow("score_1", s[3], s[2], t, s[1], n) :
        s \in Snapshots, t \in SampleTeamIds, n \in SampleTotals}

\* rows lacking the ScoreID, the TeamID or the Total
MalformedRows ==
    {ScoreRow("", "2024-01-08", "H2O", "team_a", "Aces", "3"),
     ScoreRow("score_1", "2024-01-08", "H2O", "", "Aces", "3"),
     ScoreRow("score_1", "2024-01-01", "Main Street", "team_a", "Aces", "")}

SampleRows == WellFormedRows \cup MalformedRows

RECURSIVE SeqsUpTo(_, _)
\* the sequences over S of length at most n
SeqsUpTo(S, n) ==
    IF n = 0 THEN {<<>>}
    ELSE LET shorter == SeqsUpTo(S, n - 1)
         IN  shorter \cup {Append(q, x) : q \in {r \in shorter : Len(r) = n - 1}, x \in S}

\* a tab with no data, or a first row (the header, or a score row that
\* landed in row 1) above at most MaxRows rows
SampleScoreTabs ==
    {EmptySheet} \cup
    {<<first>> \o body :
        first \in {SCORES_HEADERS,
                   ScoreRow("score_0", "2024-01-01", "Main Street", "team_a", "Aces", "3")},
        body \in SeqsUpTo(SampleRows, MaxRows)}

InitAgg ==
    /\ teams = EmptySheet
    /\ scores \in SampleScoreTabs
    /\ standings = EmptySheet
    /\ now = 0
    /\ seen = <<>>
    /\ served = 0
    /\ IdleSlots

NextAgg ==
    \/ \E location \in {"", "Main Street", "H2O"} : StandingsGet(1, location, "")
    \/ StandingsRead(1)
    \/ Respond(1)

SpecAgg == InitAgg /\ [][NextAgg]_vars

---------------------------------------------------------------------------
(* Vocabulary of the properties. *)

\* slot p holds the standings a request returned
Returned(p) ==
    pc[p] = "done" /\ req[p].endpoint = "standings" /\ resp[p].status = 200

\* slot p holds the response of a request whose persistToSheet completed
Persisted(p) ==
    /\ pc[p] = "done"
    /\ req[p].endpoint = "standings"
    /\ resp[p].status = 200
    /\ "standings" \in DOMAIN loc[p]

\* slot p is inside persistToSheet, awaiting a store call
InPersist(p) == pc[p] \in {"persist_clear", "persist_update"}

\* the rows of a tab below row 1, as a read returns them
DataRows(sheet) == SubSeq(readRange(sheet), 2, LastRow(sheet))

\* row 1 of a tab, <<>> when it is blank
HeaderOf(sheet) == IF 1 \in DOMAIN sheet THEN sheet[1] ELSE <<>>

\* the tab holds nothing below the range persistToSheet clears
WithinClearedRange(sheet) == LastRow(sheet) <= ClearLastRow

\* the store rows below row 1, top to bottom, that qualify under a location
\* filter: ScoreID and TeamID present, and the location the filter's
QualifyingRows(sheet, filter) ==
    LET rows == readRange(sheet)
        Ok(row) == /\ Cell(row, 0) # ""
                   /\ Cell(row, 4) # ""
                   /\ (filter = "" \/ Cell(row, 3) = filter)
    IN  SelectSeq(SubSeq(rows, 2, Len(rows)), Ok)

\* those of one team
RowsOfTeam(sheet, filter, teamId) ==
    LET Mine(row) == Cell(row, 4) = teamId
    IN  SelectSeq(QualifyingRows(sheet, filter), Mine)

TotalOfRow(row) == IF Cell(row, 13) = "" THEN 0 ELSE Number(Cell(row, 13))

TeamIdsIn(rows) == {Cell(rows[i], 4) : i \in 1..Len(rows)}

\* where a team id first appears among rows
FirstAt(rows, teamId) ==
    CHOOSE i \in 1..Len(rows) :
        Cell(rows[i], 4) = teamId /\ \A j \in 1..(i - 1) : Cell(rows[j], 4) # teamId

---------------------------------------------------------------------------
(* Properties of the aggregation, under SpecAgg (the Scores tab never      *)
(* changes there, so it is the tab the request read).                      *)

\* C7: every returned standing carries the teamName and location of the
\* last qualifying row of its team in store order.
C7_LastWriteWins ==
    \A p \in Slots : Returned(p) =>
        \A i \in 1..Len(resp[p].body.standings) :
            LET st == resp[p].body.standings[i]
                mine == RowsOfTeam(scores, req[p].location, st.teamId)
                last == mine[Len(mine)]
            IN  /\ st.teamName = OrElse(Cell(last, 5), "Unknown")
                /\ st.location = Cell(last, 3)

\* C8 as stated: bestScore is the maximum total over the team's qualifying
\* rows, negative totals included.
C8_BestScoreIsMax ==
    \A p \in Slots : Returned(p) =>
        \A i \in 1..Len(resp[p].body.standings) :
            LET st == resp[p].body.standings[i]
                mine == RowsOfTeam(scores, req[p].location, st.teamId)
            IN  st.bestScore = Max({TotalOfRow(mine[k]) : k \in 1..Len(mine)})

\* C8 as amended: bestScore is the maximum of 0 and the totals of the team's
\* qualifying rows.
C8_BestScoreIsMaxWithZero ==
    \A p \in Slots : Returned(p) =>
        \A i \in 1..Len(resp[p].body.standings) :
            LET st == resp[p].body.standings[i]
                mine == RowsOfTeam(scores, req[p].location, st.teamId)
            IN  st.bestScore = Max({0} \cup {TotalOfRow(mine[k]) : k \in 1..Len(mine)})

\* a team whose qualifying rows all have negative totals is returned, with
\* two rows to take the maximum of
C8_Witness ==
    \E p \in Slots : Returned(p) /\
        \E i \in 1..Len(resp[p].body.standings) :
            LET st == resp[p].body.standings[i]
                mine == RowsOfTeam(scores, req[p].location, st.teamId)
            IN  /\ Len(mine) = 2
                /\ \A k \in 1..Len(mine) : TotalOfRow(mine[k]) < 0
                /\ st.bestScore = 0

\* C9: one standing per distinct teamId among the qualifying rows, ranked
\* 1, 2, ..., N in output order.
C9_OnePerTeamRanked ==
    \A p \in Slots : Returned(p) =>
        LET out == resp[p].body.standings
            ids == TeamIdsIn(QualifyingRows(scores, req[p].location))
        IN  /\ Len(out) = Cardinality(ids)
            /\ {out[i].teamId : i \in 1..Len(out)} = ids
            /\ \A i \in 1..Len(out) : out[i].rank = i

\* C10: adjacent standings descend in totalPoints, then in gamesPlayed, and
\* standings tied on both keep the order of their teams' first rows.
C10_SortedTiesInStoreOrder ==
    \A p \in Slots : Returned(p) =>
        LET out == resp[p].body.standings
            rows == QualifyingRows(scores, req[p].location)
        IN  \A i \in 1..(Len(out) - 1) :
                /\ out[i].totalPoints >= out[i + 1].totalPoints
                /\ out[i].totalPoints = out[i + 1].totalPoints
                        => out[i].gamesPlayed >= out[i + 1].gamesPlayed
                /\ (/\ out[i].totalPoints = out[i + 1].totalPoints
                    /\ out[i].gamesPlayed = out[i + 1].gamesPlayed)
                        => FirstAt(rows, out[i].teamId) < FirstAt(rows, out[i + 1].teamId)

---------------------------------------------------------------------------
(* Properties of the cache writer, under SpecCache: slot 1 is the only     *)
(* writer of the Standings tab.                                            *)

C2_EmptyResultEmptiesCache ==
    \A p \in Slots :
        (Returned(p) /\ req[p].refresh = "true" /\ Len(resp[p].body.standings) = 0)
            => DataRows(standings) = <<>>

---------------------------------------------------------------------------
(* Properties of the Scores tab, under Spec. *)

\* C5: no step updates or deletes a score row of the Scores tab.
C5_ScoresAppendOnly ==
    [][\A r \in DOMAIN scores :
            scores[r] # SCORES_HEADERS
                => (r \in DOMAIN scores' /\ scores'[r] = scores[r])]_vars

\* C6: no two rows of the Scores tab carry the same scoreId.
C6_ScoreIdsUnique ==
    \A r1, r2 \in DOMAIN scores :
        r1 # r2 => Cell(scores[r1], 0) # Cell(scores[r2], 0)

---------------------------------------------------------------------------
(* Properties of one standings request among concurrent requests, under    *)
(* SpecFrame.                                                              *)

\* slot p handles a GET standings request
StandingsRequest(p) == req[p].endpoint = "standings" /\ "refresh" \in DOMAIN req[p]

\* slot p holds the standings that a GET standings request answered with
Answered(p) == StandingsRequest(p) /\ pc[p] = "done" /\ resp[p].status = 200

\* C11: a step of a GET standings request leaves the Teams and Scores tabs
\* and row 1 of the Standings tab unchanged, leaves the whole Standings tab
\* unchanged when refresh is not "true", and the standings it answers with
\* are computeStandings of the Scores tab as its readRange returned it.
C11_StandingsRequestFrame ==
    [][\A p \in Slots :
            (StandingsRequest(p)' /\ pc'[p] # pc[p]) =>
                /\ scores' = scores
                /\ teams' = teams
                /\ HeaderOf(standings') = HeaderOf(standings)
                /\ req'[p].refresh # "true" => standings' = standings
                /\ (pc[p] = "standings_read" /\ pc'[p] = "persist_clear") =>
                        loc'[p].standings =
                            computeStandings(readRange(scores), req[p].location)
                /\ Answered(p)' =>
                        resp'[p].body.standings =
                            IF pc[p] = "standings_read"
                            THEN computeStandings(readRange(scores), req[p].location)
                            ELSE loc[p].standings]_vars

\* a refresh request has answered with a standing, from a Scores tab with a
\* score row, over a cache that has its header
C11_Witness ==
    \E p \in Slots :
        /\ Answered(p)
        /\ req[p].refresh = "true"
        /\ Len(resp[p].body.standings) = 1
        /\ HeaderOf(standings) = STANDINGS_HEADERS
        /\ DataRows(standings) = RowsOf(resp[p].body.standings)

---------------------------------------------------------------------------
(* Properties of concurrent refreshes, under SpecRefresh. *)

\* C12: when the persists of two concurrent refresh requests have both
\* completed, the data rows of the cache are the rows of one of the two
\* runs.
C12_NoMixtureAfterTwoRefreshes ==
    (\A p \in Slots : Persisted(p)) =>
        \E p \in Slots : DataRows(standings) = RowsOf(loc[p].standings)

---------------------------------------------------------------------------
(* Properties of the Teams tab, under Spec. *)

\* C13: no two rows of the Teams tab below row 1 carry team names that are
\* equal ignoring case.
C13_NoDuplicateTeamNames ==
    \A r1, r2 \in DOMAIN teams \ {1} :
        r1 # r2 => toLowerCase(Cell(teams[r1], 1)) # toLowerCase(Cell(teams[r2], 1))

============================================================================
